---- MODULE Spec2Model ----
(***************************************************************************)
(* Model of the GhostFlow engine: the DAG executor (executor.rs), the      *)
(* trigger scheduler (scheduler.rs) and the runtime tick loop (runtime.rs).*)
(***************************************************************************)
EXTENDS Integers, Sequences, FiniteSets, TLC

(***************************************************************************)
(* Bounds of the model.                                                    *)
(***************************************************************************)
MaxNodes == 3
MaxEdges == 3
MaxFlows == 1
MaxTriggers == 2
MaxTime == 3
MaxLoops == 2
MaxDeploys == 1
MaxRedeploys == 2
MaxAttempts == 3
MaxTasks == 2
MaxRecordNodes == 2
TimeoutMs == 50

\* FlowExecutor::new sets max_concurrent_nodes: 10.
max_concurrent_nodes == 10

\* Option<T>: None is the empty sequence, Some(x) a sequence of one.
None == <<>>
Some(x) == <<x>>

\* serde_json::Value, as far as the executor produces it: null and the
\* output of one node.
Null == [json |-> "null", of |-> {}]
Out(n) == [json |-> "output", of |-> {n}]

\* The input_data a caller hands to execute_flow: null (as the scheduler
\* loop does) or some other value.
InputValues == {Null, [json |-> "input", of |-> {}]}

\* An id that is never a key of flow.nodes (the endpoint of a dangling edge).
Ghost == 0

\* Node implementations a registry can hold, by behaviour of the registered
\* type name; "missing" is a node_type that was never registered.
NodeTypes == {"test_node", "missing"}

\* The registry the executor and the runtime are built with: the engine's
\* test registers its MockNode as "test_node".
RegisteredNodes == [t \in {"test_node"} |-> "MockNode"]

\* BasicNodeRegistry::get_node / validate_node_type: the registered names.
get_node(node_type) == node_type \in DOMAIN RegisteredNodes

(***************************************************************************)
(* Flows: the input of execute_flow.  nodes is the key set of flow.nodes,  *)
(* edges the Vec<FlowEdge> as <<source_node, target_node>> pairs, and      *)
(* node_type the registry key of each node.                                *)
(***************************************************************************)
Pairs(k) == (0..k) \X (0..k)

PairLeq(p, q) == p[1] < q[1] \/ (p[1] = q[1] /\ p[2] <= q[2])

HasGhost(p) == p[1] = Ghost \/ p[2] = Ghost

\* The edge lists of length len: one more edge appended to a shorter list,
\* kept non-decreasing and with at most one dangling edge.
RECURSIVE EdgeSeqsOfLen(_, _)
EdgeSeqsOfLen(k, len) ==
    IF len = 0 THEN {<<>>}
    ELSE { Append(s, p) : <<s, p>> \in
             { sp \in EdgeSeqsOfLen(k, len - 1) \X Pairs(k) :
                 /\ sp[1] # <<>> => PairLeq(sp[1][Len(sp[1])], sp[2])
                 /\ HasGhost(sp[2]) => \A i \in DOMAIN sp[1] : ~HasGhost(sp[1][i]) } }

\* Edge lists of length at most MaxEdges, enumerated up to the order of the
\* list (non-decreasing), duplicates (parallel edges) included; at most one
\* edge of a list is dangling.
EdgeSeqs(k) == UNION { EdgeSeqsOfLen(k, len) : len \in 0..MaxEdges }

\* A fan-out flow whose second wave is one node wider than the concurrency
\* bound: a root with edges to max_concurrent_nodes + 1 children.
WideFlow ==
    [nodes |-> 1..(max_concurrent_nodes + 2),
     edges |-> [i \in 1..(max_concurrent_nodes + 1) |-> <<1, i + 1>>],
     node_type |-> [n \in 1..(max_concurrent_nodes + 2) |-> "test_node"]]

(***************************************************************************)
(* Graph predicates used to state the claims.                              *)
(***************************************************************************)
EdgeSet(f) == { f.edges[i] : i \in DOMAIN f.edges }

Dangling(f) == \E e \in EdgeSet(f) : e[1] \notin f.nodes \/ e[2] \notin f.nodes

RECURSIVE ReachIn(_, _, _)
ReachIn(f, S, n) ==
    IF n = 0 THEN S
    ELSE ReachIn(f, S \cup { e[2] : e \in { d \in EdgeSet(f) : d[1] \in S } }, n - 1)

\* A directed cycle (self-loops included) among the edges of f.
Cyclic(f) ==
    \E e \in EdgeSet(f) : e[1] \in ReachIn(f, {e[2]}, Cardinality(f.nodes) + 1)

AllRegistered(f) == \A n \in f.nodes : get_node(f.node_type[n])

ValidFlow(f) == ~Dangling(f) /\ ~Cyclic(f) /\ AllRegistered(f)

Sinks(f) == { n \in f.nodes : \A e \in EdgeSet(f) : e[1] # n }

\* The flows given to execute_flow.  node_type is read only when a node is
\* run, so the flows no node of which is ever run carry registered types.
FlowsOfSize(k) ==
    { f \in { [nodes |-> 1..k, edges |-> e, node_type |-> t] :
                e \in EdgeSeqs(k), t \in [1..k -> NodeTypes] } :
        (Dangling(f) \/ Cyclic(f)) => AllRegistered(f) }

(***************************************************************************)
(* FlowExecutor::build_execution_order (Kahn's algorithm in waves).        *)
(***************************************************************************)
\* in_degree after the "Build graph" loop: one increment per edge.
in_degree(f) ==
    [n \in f.nodes |-> Cardinality({ i \in DOMAIN f.edges : f.edges[i][2] = n })]

RECURSIVE Targets(_, _, _)
Targets(edges, n, i) ==
    IF i > Len(edges) THEN <<>>
    ELSE (IF edges[i][1] = n THEN <<edges[i][2]>> ELSE <<>>) \o Targets(edges, n, i + 1)

\* adjacency after the "Build graph" loop: targets pushed in edge order.
adjacency(f) == [n \in f.nodes |-> Targets(f.edges, n, 1)]

\* The unwrap() calls of the "Build graph" loop panic on an edge whose
\* source_node is no key of adjacency or whose target_node is no key of in_degree.
BuildGraphPanics(f) ==
    \E i \in DOMAIN f.edges : f.edges[i][1] \notin f.nodes \/ f.edges[i][2] \notin f.nodes

\* "Update dependencies": decrement each neighbor, queue it when it reaches 0.
RECURSIVE UpdateDependencies(_, _, _)
UpdateDependencies(neighbors, deg, queue) ==
    IF neighbors = <<>> THEN [in_degree |-> deg, queue |-> queue]
    ELSE LET neighbor == Head(neighbors)
             degree == deg[neighbor] - 1
         IN UpdateDependencies(Tail(neighbors), [deg EXCEPT ![neighbor] = degree],
                               IF degree = 0 THEN Append(queue, neighbor) ELSE queue)

\* PopBatch without the batch_size limit: the nodes queued while the wave is
\* popped join the same wave.
RECURSIVE PopBatchDrain(_, _, _, _, _)
PopBatchDrain(adj, batch_size, deg, queue, current_batch) ==
    IF queue = <<>>
    THEN [in_degree |-> deg, queue |-> queue, current_batch |-> current_batch]
    ELSE LET node_id == Head(queue)
             u == UpdateDependencies(adj[node_id], deg, Tail(queue))
         IN PopBatchDrain(adj, batch_size - 1, u.in_degree, u.queue,
                          Append(current_batch, node_id))

\* The inner "for _ in 0..batch_size" loop: pop batch_size nodes.
RECURSIVE PopBatch(_, _, _, _, _)
PopBatch(adj, batch_size, deg, queue, current_batch) ==
    IF batch_size = 0 \/ queue = <<>>
    THEN [in_degree |-> deg, queue |-> queue, current_batch |-> current_batch]
    ELSE LET node_id == Head(queue)
             u == UpdateDependencies(adj[node_id], deg, Tail(queue))
         IN PopBatch(adj, batch_size - 1, u.in_degree, u.queue,
                     Append(current_batch, node_id))

\* The while loop with a batch_size of 1: every wave holds a single node.
RECURSIVE KahnLoopSingle(_, _, _, _)
KahnLoopSingle(adj, deg, queue, result) ==
    IF queue = <<>> THEN result
    ELSE LET b == PopBatch(adj, 1, deg, queue, <<>>)
         IN KahnLoopSingle(adj, b.in_degree, b.queue,
                           IF b.current_batch # <<>> THEN Append(result, b.current_batch)
                           ELSE result)

\* The "while !queue.is_empty()" loop.
RECURSIVE KahnLoop(_, _, _, _)
KahnLoop(adj, deg, queue, result) ==
    IF queue = <<>> THEN result
    ELSE LET b == PopBatch(adj, Len(queue), deg, queue, <<>>)
         IN KahnLoop(adj, b.in_degree, b.queue,
                     IF b.current_batch # <<>> THEN Append(result, b.current_batch)
                     ELSE result)

RECURSIVE SumLen(_)
SumLen(batches) == IF batches = <<>> THEN 0 ELSE Len(Head(batches)) + SumLen(Tail(batches))

Perms(S) ==
    { s \in [1..Cardinality(S) -> S] : \A i, j \in DOMAIN s : i # j => s[i] # s[j] }

\* "Find nodes with no dependencies" iterates the in_degree HashMap, whose
\* order is unspecified: the initial queue is any order of the zero-degree nodes.
KeyOrders(f) == Perms({ n \in f.nodes : in_degree(f)[n] = 0 })

\* The result for one iteration order: Ok(waves), or Err(ValidationError)
\* when the waves do not hold every node ("Check for cycles").
build_execution_order(f, queue) ==
    LET result == KahnLoop(adjacency(f), in_degree(f), queue, <<>>)
    IN IF SumLen(result) # Cardinality(f.nodes)
       THEN [ok |-> FALSE, error |-> "ValidationError", order |-> <<>>]
       ELSE [ok |-> TRUE, error |-> None, order |-> result]

\* The results build_execution_order can return for flow f.
Plans(f) == { build_execution_order(f, queue) : queue \in KeyOrders(f) }

(***************************************************************************)
(* State of one execute_flow call.                                         *)
(***************************************************************************)
VARIABLES
    flow,             \* the Flow handed to execute_flow
    pc,               \* position of the execute_flow task
    execution,        \* the FlowExecution record (None before it is created)
    execution_order,  \* the waves returned by build_execution_order
    batch,            \* index of the node_batch being run
    nstate,           \* per node: position of its execute_node future
    node_results      \* keys of the node_results map

execVars == <<flow, pc, execution, execution_order, batch, nstate, node_results>>

(***************************************************************************)
(* State of a FlowRuntime and its FlowScheduler.                           *)
(***************************************************************************)
VARIABLES
    running,          \* FlowRuntime.running
    flows,            \* FlowRuntime.flows: flow id -> Flow
    scheduled_flows,  \* FlowScheduler.scheduled_flows: flow id -> ScheduledFlow
    now,              \* chrono::Utc::now(), in minutes
    loops,            \* the scheduler loop tasks spawned by start()
    deploying,        \* a deploy_flow call between its two lock scopes
    undeploying,      \* an undeploy_flow call between its two lock scopes
    fires,            \* history: runs started at this instant, per scheduled trigger
    served,           \* history: scheduled triggers whose run returned at this instant
    deploys           \* history: number of deploy_flow calls that passed validation

rtVars == <<running, flows, scheduled_flows, now, loops, deploying, undeploying,
            fires, served, deploys>>

(***************************************************************************)
(* The calls made on the runtime and the executor.                         *)
(***************************************************************************)
VARIABLES
    result,           \* the Result returned by the latest call of the runtime's API
    execution_trigger, \* trigger_type of the ExecutionTrigger given to execute_flow
    input_data        \* the input_data given to execute_flow

callVars == <<result, execution_trigger, input_data>>

(***************************************************************************)
(* What the claims observe besides the program's own state.                *)
(***************************************************************************)
VARIABLES
    first_failed,     \* history: the node whose execute_node future returned Err first in time
    elapsed,          \* history: nodes whose timeout_ms passed while their execute was pending
    cancelled,        \* history: cancellation of the execution was requested
    events,           \* the lifecycle events emitted for the execution
    registry,         \* BasicNodeRegistry.nodes: node_type -> implementation
    previous          \* history: the record an earlier execute_flow of an equal flow returned

histVars == <<first_failed, elapsed, cancelled, events, registry, previous>>

(***************************************************************************)
(* The three RwLocks of the runtime and its scheduler, and the calls that  *)
(* take them.                                                              *)
(***************************************************************************)
VARIABLES
    held,             \* per lock: the guards alive, as <<task, mode>>
    waiting,          \* per lock: the tasks awaiting it, first come first
    calls             \* per task: the operation it is in and its position

lockVars == <<held, waiting, calls>>

vars == <<execVars, rtVars, callVars, histVars, lockVars>>

\* Result<()> of the API calls.  issues holds the messages of a
\* ValidationError (validate_flow returns one); arg_defects is history: the
\* checks of validate_flow that the flow given to deploy_flow fails.
NoResult == [op |-> "none", ok |-> TRUE, error |-> "", issues |-> {}, arg_defects |-> {}]

Ok(op) == [op |-> op, ok |-> TRUE, error |-> "", issues |-> {}, arg_defects |-> {}]

Err(op, variant) ==
    [op |-> op, ok |-> FALSE, error |-> variant, issues |-> {}, arg_defects |-> {}]

NodeFailed == {"unknown_type", "validate_failed", "execute_failed"}
NodeRunning == {"validating", "executing"}
NodeDone == {"ok"} \cup NodeFailed

\* The GhostFlowError an execute_node future returns for a failed node.
NodeError(n) ==
    CASE nstate[n] = "unknown_type" -> [variant |-> "NodeExecutionError", node |-> {n}]
      [] nstate[n] = "validate_failed" -> [variant |-> "ValidationError", node |-> {n}]
      [] nstate[n] = "execute_failed" -> [variant |-> "NetworkError", node |-> {n}]

\* The empty HashMap.
EmptyMap == [x \in {} |-> {}]

\* No FlowExecution exists before execute_flow is called.
NoExecution ==
    [status |-> "NoRecord", trigger_type |-> "", output_data |-> None, error |-> None,
     node_executions |-> EmptyMap,
     flow_id |-> 0, flow_version |-> "", input_data |-> Null,
     started_at |-> 0, completed_at |-> None, execution_time_ms |-> None]

\* FlowRuntime::new: not running, no flow deployed or scheduled, no loop task.
RuntimeNew ==
    /\ running = FALSE
    /\ flows = EmptyMap
    /\ scheduled_flows = EmptyMap
    /\ now = 0
    /\ loops = [l \in 1..MaxLoops |-> [pc |-> "none", ready |-> <<>>]]
    /\ deploying = None
    /\ undeploying = None
    /\ fires = {}
    /\ served = {}
    /\ deploys = 0

\* Before execute_flow is called: no node has failed or is overdue, no
\* cancellation was requested, no event was emitted, and the registry is
\* the one the executor was built with.
NoHistory ==
    /\ first_failed = None
    /\ elapsed = {}
    /\ cancelled = FALSE
    /\ events = <<>>
    /\ registry = RegisteredNodes
    /\ previous = None

\* FlowRuntime.running, FlowRuntime.flows and FlowScheduler.scheduled_flows.
Locks == {"running", "flows", "scheduled_flows"}

\* The tasks that call the runtime, the spawned scheduler loop among them.
Tasks == 1..MaxTasks

\* A task that is in no call.
Idle == [op |-> "none", ok |-> TRUE, at |-> 0, ready |-> 0]

\* The locks are created unlocked (runtime.rs 21-32, scheduler.rs 25-31) and
\* no call is in progress.
NoCalls ==
    /\ held = [l \in Locks |-> {}]
    /\ waiting = [l \in Locks |-> <<>>]
    /\ calls = [t \in Tasks |-> Idle]

InitCall(f, d) ==
    /\ RuntimeNew
    /\ NoHistory
    /\ NoCalls
    /\ flow = f
    /\ pc = "idle"
    /\ execution = NoExecution
    /\ execution_order = <<>>
    /\ batch = 0
    /\ nstate = [n \in f.nodes |-> "idle"]
    /\ node_results = {}
    /\ result = NoResult
    /\ execution_trigger = "manual"
    /\ input_data = d

\* A call of execute_flow with flow f and the input null.
InitExec(f) == InitCall(f, Null)

Init == \E k \in 0..MaxNodes : \E f \in FlowsOfSize(k) : InitExec(f)

\* execute_flow, lines 40-60: the record is created with status Running.
\* flow.id and flow.version; the flows of the executor's own checks carry
\* neither, and stand for a flow with the nil id and the version "1.0.0".
id_of(f) == IF "id" \in DOMAIN f THEN f.id ELSE 0
version_of(f) == IF "version" \in DOMAIN f THEN f.version ELSE "1.0.0"

\* started_at of the record: taken when the record is created.
started_at == IF execution.status = "NoRecord" THEN now ELSE execution.started_at

NewExecution ==
    [status |-> "Running", trigger_type |-> execution_trigger, output_data |-> None, error |-> None,
     node_executions |-> EmptyMap,
     flow_id |-> id_of(flow), flow_version |-> version_of(flow),
     input_data |-> input_data,
     started_at |-> started_at, completed_at |-> None, execution_time_ms |-> None]

\* An Ok arm that leaves completed_at and execution_time_ms as created.
CompletedExecutionOpen(final_output) ==
    [NewExecution EXCEPT !.status = "Completed",
                         !.output_data = Some(final_output)]

\* execute_flow, Ok arm (lines 63-70).
CompletedExecution(final_output) ==
    [NewExecution EXCEPT !.status = "Completed",
                         !.output_data = Some(final_output),
                         !.completed_at = Some(now),
                         !.execution_time_ms = Some(now - started_at)]

\* The Err arm without the assignment of the status.
FailedExecutionRunning(error) ==
    [NewExecution EXCEPT !.error = Some([error_type |-> "InternalError",
                                         message |-> error,
                                         retryable |-> TRUE]),
                         !.completed_at = Some(now),
                         !.execution_time_ms = Some(now - started_at)]

\* execute_flow, Err arm (lines 71-83): every error is recorded as
\* InternalError, retryable, with the error's text as message.
FailedExecution(error) ==
    [NewExecution EXCEPT !.status = "Failed",
                         !.error = Some([error_type |-> "InternalError",
                                         message |-> error,
                                         retryable |-> TRUE]),
                         !.completed_at = Some(now),
                         !.execution_time_ms = Some(now - started_at)]

\* execute_flow up to build_execution_order, when the "Build graph" loop
\* panics: the call unwinds and no record is returned.
ExecuteFlowPanic ==
    /\ pc = "idle"
    /\ BuildGraphPanics(flow)
    /\ pc' = "panicked"
    /\ UNCHANGED <<flow, execution, execution_order, batch, nstate, node_results>>
    /\ UNCHANGED rtVars
    /\ UNCHANGED <<callVars, histVars, lockVars>>

\* execute_flow when build_execution_order returns Err: the `?` of
\* execute_flow_internal returns it and the Err arm records it.
ExecuteFlowCycle ==
    /\ pc = "idle"
    /\ ~BuildGraphPanics(flow)
    /\ \E r \in Plans(flow) :
         /\ ~r.ok
         /\ execution' = FailedExecution([variant |-> r.error, node |-> {}])
    /\ pc' = "done"
    /\ UNCHANGED <<flow, execution_order, batch, nstate, node_results>>
    /\ UNCHANGED rtVars
    /\ UNCHANGED <<callVars, histVars, lockVars>>

\* execute_flow when build_execution_order returns Ok(waves): the for loop
\* over the waves is entered.
ExecuteFlowStart ==
    /\ pc = "idle"
    /\ ~BuildGraphPanics(flow)
    /\ \E r \in Plans(flow) :
         /\ r.ok
         /\ execution_order' = r.order
    /\ execution' = NewExecution
    /\ batch' = 1
    /\ pc' = "running"
    /\ UNCHANGED <<flow, nstate, node_results>>
    /\ UNCHANGED rtVars
    /\ UNCHANGED <<callVars, histVars, lockVars>>

InBatch == pc = "running" /\ batch <= Len(execution_order)

\* History: the first execute_node future of the execution to return Err.
FirstFailure(n) == IF first_failed = None THEN Some(n) ELSE first_failed

node_batch == execution_order[batch]

\* join_all polls the futures of the batch in order: a future is first
\* polled after every future before it in the batch.
MayStart(i) ==
    /\ nstate[node_batch[i]] = "idle"
    /\ \A j \in 1..(i - 1) : nstate[node_batch[j]] # "idle"

\* execute_node, first poll (lines 156-164): the registry lookup and the
\* call of validate.
PollNode ==
    /\ InBatch
    /\ \E i \in DOMAIN node_batch :
         LET n == node_batch[i]
         IN /\ MayStart(i)
            /\ nstate' = [nstate EXCEPT ![n] =
                            IF get_node(flow.node_type[n]) THEN "validating"
                            ELSE "unknown_type"]
            /\ first_failed' = IF get_node(flow.node_type[n]) THEN first_failed
                               ELSE FirstFailure(n)
    /\ UNCHANGED <<flow, pc, execution, execution_order, batch, node_results>>
    /\ UNCHANGED rtVars
    /\ UNCHANGED <<callVars, elapsed, cancelled, events, registry, previous, lockVars>>

\* An execute_node that calls execute after validate returned Ok and again
\* after execute returned Err.
ValidateOkOrRetry ==
    /\ InBatch
    /\ \E n \in flow.nodes :
         /\ nstate[n] \in {"validating", "execute_failed"}
         /\ nstate' = [nstate EXCEPT ![n] = "executing"]
    /\ UNCHANGED <<flow, pc, execution, execution_order, batch, node_results>>
    /\ UNCHANGED rtVars
    /\ UNCHANGED <<callVars, histVars, lockVars>>

\* node.validate(&context).await returns Ok: execute is called (line 167).
ValidateOk ==
    /\ InBatch
    /\ \E n \in flow.nodes :
         /\ nstate[n] = "validating"
         /\ nstate' = [nstate EXCEPT ![n] = "executing"]
    /\ UNCHANGED <<flow, pc, execution, execution_order, batch, node_results>>
    /\ UNCHANGED rtVars
    /\ UNCHANGED <<callVars, histVars, lockVars>>

\* node.validate(&context).await returns Err: the `?` returns it.
ValidateErr ==
    /\ InBatch
    /\ \E n \in flow.nodes :
         /\ nstate[n] = "validating"
         /\ nstate' = [nstate EXCEPT ![n] = "validate_failed"]
         /\ first_failed' = FirstFailure(n)
    /\ UNCHANGED <<flow, pc, execution, execution_order, batch, node_results>>
    /\ UNCHANGED rtVars
    /\ UNCHANGED <<callVars, elapsed, cancelled, events, registry, previous, lockVars>>

\* node.execute(context).await returns Ok(result).
ExecuteOk ==
    /\ InBatch
    /\ \E n \in flow.nodes :
         /\ nstate[n] = "executing"
         /\ nstate' = [nstate EXCEPT ![n] = "ok"]
    /\ UNCHANGED <<flow, pc, execution, execution_order, batch, node_results>>
    /\ UNCHANGED rtVars
    /\ UNCHANGED <<callVars, histVars, lockVars>>

\* node.execute(context).await returns Err.
ExecuteErr ==
    /\ InBatch
    /\ \E n \in flow.nodes :
         /\ nstate[n] = "executing"
         /\ nstate' = [nstate EXCEPT ![n] = "execute_failed"]
         /\ first_failed' = FirstFailure(n)
    /\ UNCHANGED <<flow, pc, execution, execution_order, batch, node_results>>
    /\ UNCHANGED rtVars
    /\ UNCHANGED <<callVars, elapsed, cancelled, events, registry, previous, lockVars>>

\* A join that is ready as soon as one future of the batch is
\* (select instead of join_all).
BatchJoinedAny == InBatch /\ \E i \in DOMAIN node_batch : nstate[node_batch[i]] \in NodeDone

\* A join that is ready when every future is or as soon as one returned Err
\* (try_join_all instead of join_all).
BatchJoinedFailFast ==
    /\ InBatch
    /\ \/ \A i \in DOMAIN node_batch : nstate[node_batch[i]] \in NodeDone
       \/ \E i \in DOMAIN node_batch : nstate[node_batch[i]] \in NodeFailed

\* join_all(futures).await is ready when every future of the batch is.
BatchJoined == InBatch /\ \A i \in DOMAIN node_batch : nstate[node_batch[i]] \in NodeDone

\* Index of the first Err in batch_results (0 when there is none).
FirstErr ==
    LET bad == { i \in DOMAIN node_batch : nstate[node_batch[i]] \in NodeFailed }
    IN IF bad = {} THEN 0 ELSE CHOOSE i \in bad : \A j \in bad : i <= j

\* Lines 127-138, no Err in batch_results: every output is inserted in
\* node_results and the for loop goes to the next batch.
JoinBatchOk ==
    /\ BatchJoined
    /\ FirstErr = 0
    /\ node_results' = node_results \cup { node_batch[i] : i \in DOMAIN node_batch }
    /\ batch' = batch + 1
    /\ UNCHANGED <<flow, pc, execution, execution_order, nstate>>
    /\ UNCHANGED rtVars
    /\ UNCHANGED <<callVars, histVars, lockVars>>

\* Lines 127-138 with an Err in batch_results: the outputs before it are
\* inserted, the first Err is returned, and execute_flow records it.
JoinBatchErr ==
    /\ BatchJoined
    /\ FirstErr # 0
    /\ node_results' = node_results \cup { node_batch[i] : i \in 1..(FirstErr - 1) }
    /\ execution' = FailedExecution(NodeError(node_batch[FirstErr]))
    /\ pc' = "done"
    /\ UNCHANGED <<flow, execution_order, batch, nstate>>
    /\ UNCHANGED rtVars
    /\ UNCHANGED <<callVars, histVars, lockVars>>

\* "Determine final output" (lines 141-148): flow.nodes.keys().last() is the
\* last key in the HashMap's unspecified iteration order.
FinalOutputs ==
    IF flow.nodes = {} THEN {Null}
    ELSE { IF last_node_id \in node_results THEN Out(last_node_id) ELSE Null :
             last_node_id \in flow.nodes }

\* After the last batch: execute_flow_internal returns Ok(final_output) and
\* execute_flow records it (Ok arm).
CompleteFlow ==
    /\ pc = "running"
    /\ batch > Len(execution_order)
    /\ \E final_output \in FinalOutputs : execution' = CompletedExecution(final_output)
    /\ pc' = "done"
    /\ UNCHANGED <<flow, execution_order, batch, nstate, node_results>>
    /\ UNCHANGED rtVars
    /\ UNCHANGED <<callVars, histVars, lockVars>>

NodeStep == PollNode \/ ValidateOk \/ ValidateErr \/ ExecuteOk \/ ExecuteErr

Next ==
    \/ ExecuteFlowPanic
    \/ ExecuteFlowCycle
    \/ ExecuteFlowStart
    \/ PollNode
    \/ ValidateOk
    \/ ValidateErr
    \/ ExecuteOk
    \/ ExecuteErr
    \/ JoinBatchOk
    \/ JoinBatchErr
    \/ CompleteFlow

Spec == Init /\ [][Next]_vars

(***************************************************************************)
(* FlowScheduler (scheduler.rs).                                           *)
(***************************************************************************)
FlowIds == 1..MaxFlows
TriggerIds == {"t1", "t2"}
TriggerTypes == {"cron", "webhook", "manual"}

\* FlowTrigger: id, trigger_type, enabled.
Triggers == [id : TriggerIds, trigger_type : TriggerTypes, enabled : BOOLEAN]

\* Trigger lists of length at most MaxTriggers.  Ids are only compared for
\* equality, so the first trigger of a list is given the id "t1".
TriggerLists ==
    UNION { { t \in [1..len -> Triggers] : len > 0 => t[1].id = "t1" } :
            len \in 0..MaxTriggers }

\* The graphs of the flows handed to deploy_flow: a valid one-node flow, a
\* flow without nodes, one with an unregistered node type, one with a
\* dangling edge, one with both of these defects and one with a cycle.
RuntimeGraphs ==
    { [nodes |-> {1}, edges |-> <<>>, node_type |-> [n \in {1} |-> "test_node"]],
      [nodes |-> {}, edges |-> <<>>, node_type |-> EmptyMap],
      [nodes |-> {1}, edges |-> <<>>, node_type |-> [n \in {1} |-> "missing"]],
      [nodes |-> {1}, edges |-> <<<<1, Ghost>>>>, node_type |-> [n \in {1} |-> "test_node"]],
      [nodes |-> {1}, edges |-> <<<<1, Ghost>>>>, node_type |-> [n \in {1} |-> "missing"]],
      [nodes |-> {1, 2}, edges |-> <<<<1, 2>>, <<2, 1>>>>,
       node_type |-> [n \in {1, 2} |-> "test_node"]] }

DeployFlows ==
    { [id |-> i, nodes |-> g.nodes, edges |-> g.edges, node_type |-> g.node_type,
       triggers |-> t] : i \in FlowIds, g \in RuntimeGraphs, t \in TriggerLists }

\* HashMap::insert and HashMap::remove.
Insert(map, key, value) ==
    [x \in DOMAIN map \cup {key} |-> IF x = key THEN value ELSE map[x]]

Remove(map, key) == [x \in DOMAIN map \ {key} |-> map[x]]

\* calculate_next_cron_run: the stub returns now + 1 minute for every expression.
cron_minutes == 1

calculate_next_cron_run(t) == t + cron_minutes

\* The loop over flow.triggers without the `continue` for disabled triggers.
RECURSIVE ScheduledTriggersAll(_, _)
ScheduledTriggersAll(triggers, t) ==
    IF triggers = <<>> THEN <<>>
    ELSE <<[trigger |-> Head(triggers),
            next_run |-> IF Head(triggers).trigger_type = "cron"
                         THEN Some(calculate_next_cron_run(t))
                         ELSE None]>> \o ScheduledTriggersAll(Tail(triggers), t)

\* schedule_flow, the loop over flow.triggers: disabled triggers are skipped,
\* a Cron trigger gets next_run, Webhook and Manual get None.
RECURSIVE ScheduledTriggers(_, _)
ScheduledTriggers(triggers, t) ==
    IF triggers = <<>> THEN <<>>
    ELSE LET trigger == Head(triggers)
             rest == ScheduledTriggers(Tail(triggers), t)
         IN IF ~trigger.enabled THEN rest
            ELSE <<[trigger |-> trigger,
                    next_run |-> IF trigger.trigger_type = "cron"
                                 THEN Some(calculate_next_cron_run(t))
                                 ELSE None]>> \o rest

\* schedule_flow: the entry inserted under flow.id.
schedule_flow(map, f, t) ==
    Insert(map, f.id, [flow |-> f, triggers |-> ScheduledTriggers(f.triggers, t)])

\* The inner loop of get_ready_flows with `next_run < now` as its test.
RECURSIVE ReadyOfStrict(_, _, _)
ReadyOfStrict(sf, t, i) ==
    IF i > Len(sf.triggers) THEN <<>>
    ELSE (IF sf.triggers[i].next_run # None /\ sf.triggers[i].next_run[1] < t
          THEN <<[flow |-> sf.flow, trigger |-> sf.triggers[i].trigger, idx |-> i]>>
          ELSE <<>>) \o ReadyOfStrict(sf, t, i + 1)

\* get_ready_flows, inner loop: the triggers of one scheduled flow whose
\* next_run is present and <= now, in order.  idx is the position of the
\* scheduled trigger (history only: the code pushes (flow, trigger)).
RECURSIVE ReadyOf(_, _, _)
ReadyOf(sf, t, i) ==
    IF i > Len(sf.triggers) THEN <<>>
    ELSE (IF sf.triggers[i].next_run # None /\ sf.triggers[i].next_run[1] <= t
          THEN <<[flow |-> sf.flow, trigger |-> sf.triggers[i].trigger, idx |-> i]>>
          ELSE <<>>) \o ReadyOf(sf, t, i + 1)

RECURSIVE ReadyInOrder(_, _, _)
ReadyInOrder(map, order, t) ==
    IF order = <<>> THEN <<>>
    ELSE ReadyOf(map[Head(order)], t, 1) \o ReadyInOrder(map, Tail(order), t)

\* get_ready_flows: scheduled_flows.values() iterates in the HashMap's
\* unspecified order.
get_ready_flows(map, t) == { ReadyInOrder(map, order, t) : order \in Perms(DOMAIN map) }

\* update_trigger_next_run, the loop over the triggers of the scheduled flow:
\* the first trigger whose id matches is updated when it is Cron, and the
\* loop breaks there.
RECURSIVE UpdateFirstMatch(_, _, _)
UpdateFirstMatch(triggers, trigger_id, t) ==
    IF triggers = <<>> THEN <<>>
    ELSE IF Head(triggers).trigger.id = trigger_id
         THEN <<IF Head(triggers).trigger.trigger_type = "cron"
                THEN [Head(triggers) EXCEPT !.next_run = Some(calculate_next_cron_run(t))]
                ELSE Head(triggers)>> \o Tail(triggers)
         ELSE <<Head(triggers)>> \o UpdateFirstMatch(Tail(triggers), trigger_id, t)

update_trigger_next_run(map, flow_id, trigger_id, t) ==
    IF flow_id \in DOMAIN map
    THEN [map EXCEPT ![flow_id].triggers = UpdateFirstMatch(@, trigger_id, t)]
    ELSE map

(***************************************************************************)
(* FlowRuntime (runtime.rs).                                               *)
(***************************************************************************)
\* validate_flow without its loop over the edges.
validate_flow_nodes_only(f) ==
    /\ f.nodes # {}
    /\ \A n \in f.nodes : get_node(f.node_type[n])

\* validate_flow: Ok, or the first ValidationError found.
validate_flow(f) ==
    /\ f.nodes # {}
    /\ \A n \in f.nodes : get_node(f.node_type[n])
    /\ \A i \in DOMAIN f.edges : f.edges[i][1] \in f.nodes /\ f.edges[i][2] \in f.nodes

\* The checks of validate_flow that flow f fails.
Defects(f) ==
    (IF f.nodes = {} THEN {"no_nodes"} ELSE {})
    \cup (IF \E n \in f.nodes : ~get_node(f.node_type[n]) THEN {"unknown_node_type"} ELSE {})
    \cup (IF \E i \in DOMAIN f.edges : f.edges[i][1] \notin f.nodes \/ f.edges[i][2] \notin f.nodes
          THEN {"unknown_edge_node"} ELSE {})

\* validate_flow returns at the first check that fails: the messages of the
\* ValidationError it returns.
ValidationIssues(f) ==
    IF f.nodes = {} THEN {"no_nodes"}
    ELSE IF \E n \in f.nodes : ~get_node(f.node_type[n]) THEN {"unknown_node_type"}
    ELSE IF \E i \in DOMAIN f.edges : f.edges[i][1] \notin f.nodes \/ f.edges[i][2] \notin f.nodes
         THEN {"unknown_edge_node"}
    ELSE {}

\* The flows deploy_flow can be given, by the outcome of validate_flow.
ValidDeployFlows == { f \in DeployFlows : validate_flow(f) }

InvalidDeployFlows == DeployFlows \ ValidDeployFlows

\* What deploy_flow returns for the flows that fail validate_flow, the flows
\* taken up to what validate_flow reads of them.
InvalidDeployResults ==
    { [op |-> "deploy_flow", ok |-> FALSE, error |-> "ValidationError",
       issues |-> ValidationIssues(f), arg_defects |-> Defects(f)] :
      f \in InvalidDeployFlows }

\* History: a run of the scheduled trigger (flow id, position) starts now.
Fired(entry) ==
    LET key == <<entry.flow.id, entry.idx>>
    IN IF \E c \in {1, 2} : <<key, c>> \in fires
       THEN (fires \ {<<key, 1>>}) \cup {<<key, 2>>}
       ELSE fires \cup {<<key, 1>>}

\* start(): fails when already running; otherwise sets the flag and spawns
\* a scheduler loop task, which first awaits ticker.tick().
StartOk ==
    /\ ~running
    /\ \E l \in 1..MaxLoops :
         /\ loops[l].pc = "none"
         /\ \A k \in 1..(l - 1) : loops[k].pc # "none"
         /\ loops' = [loops EXCEPT ![l].pc = "sleep"]
    /\ running' = TRUE
    /\ result' = Ok("start")
    /\ UNCHANGED <<flows, scheduled_flows, now, deploying, undeploying, fires, served, deploys>>
    /\ UNCHANGED <<execVars, execution_trigger, input_data, histVars, lockVars>>

\* start() on a running runtime returns Err(InternalError).
StartErr ==
    /\ running
    /\ result' = Err("start", "InternalError")
    /\ UNCHANGED <<execVars, rtVars, execution_trigger, input_data, histVars, lockVars>>

\* stop(): clears the flag and returns Ok.
Stop ==
    /\ running' = FALSE
    /\ result' = Ok("stop")
    /\ UNCHANGED <<flows, scheduled_flows, now, loops, deploying, undeploying, fires, served, deploys>>
    /\ UNCHANGED <<execVars, execution_trigger, input_data, histVars, lockVars>>

\* The loop task after ticker.tick(): the flag is clear and the loop breaks.
TickStop ==
    /\ \E l \in 1..MaxLoops :
         /\ loops[l].pc = "sleep"
         /\ ~running
         /\ loops' = [loops EXCEPT ![l].pc = "stopped"]
    /\ UNCHANGED <<running, flows, scheduled_flows, now, deploying, undeploying, fires, served, deploys>>
    /\ UNCHANGED <<execVars, callVars, histVars, lockVars>>

\* The loop task after ticker.tick() with no ready flow: it awaits the next tick.
TickIdle ==
    /\ \E l \in 1..MaxLoops :
         /\ loops[l].pc = "sleep"
         /\ running
         /\ <<>> \in get_ready_flows(scheduled_flows, now)
    /\ UNCHANGED vars

\* The loop task after ticker.tick(): it snapshots the ready flows and
\* calls execute_flow for the first of them.
TickDispatch ==
    /\ \E l \in 1..MaxLoops :
         /\ loops[l].pc = "sleep"
         /\ running
         /\ \E ready_flows \in get_ready_flows(scheduled_flows, now) :
              /\ ready_flows # <<>>
              /\ loops' = [loops EXCEPT ![l] = [pc |-> "executing", ready |-> ready_flows]]
              /\ fires' = Fired(Head(ready_flows))
    /\ UNCHANGED <<running, flows, scheduled_flows, now, deploying, undeploying, served, deploys>>
    /\ UNCHANGED <<execVars, callVars, histVars, lockVars>>

\* executor.execute_flow(...).await returns Ok(execution) in the loop task:
\* update_trigger_next_run is called for the flow and trigger of the entry,
\* then the next entry of the snapshot is executed, or the next tick awaited.
ExecutionReturns ==
    /\ \E l \in 1..MaxLoops :
         /\ loops[l].pc = "executing"
         /\ LET entry == Head(loops[l].ready)
                rest == Tail(loops[l].ready)
            IN /\ scheduled_flows' =
                    update_trigger_next_run(scheduled_flows, entry.flow.id,
                                            entry.trigger.id, now)
               /\ served' = served \cup {<<entry.flow.id, entry.idx>>}
               /\ loops' = [loops EXCEPT ![l] =
                              [pc |-> IF rest = <<>> THEN "sleep" ELSE "executing",
                               ready |-> rest]]
               /\ fires' = IF rest = <<>> THEN fires ELSE Fired(Head(rest))
    /\ UNCHANGED <<running, flows, now, deploying, undeploying, deploys>>
    /\ UNCHANGED <<execVars, callVars, histVars, lockVars>>

\* A deploy_flow that stores the flow before it validates it.
DeployInvalidStored ==
    /\ deploying = None
    /\ \E f \in InvalidDeployFlows :
         /\ flows' = Insert(flows, f.id, f)
         /\ result' = [op |-> "deploy_flow", ok |-> FALSE, error |-> "ValidationError",
                       issues |-> ValidationIssues(f), arg_defects |-> Defects(f)]
    /\ UNCHANGED <<running, scheduled_flows, now, loops, deploying, undeploying, fires,
                   served, deploys>>
    /\ UNCHANGED <<execVars, execution_trigger, input_data, histVars, lockVars>>

\* deploy_flow: validate_flow fails and the error is returned.
DeployInvalid ==
    /\ deploying = None
    /\ \E r \in InvalidDeployResults : result' = r
    /\ UNCHANGED <<execVars, rtVars, execution_trigger, input_data, histVars, lockVars>>

\* deploy_flow, first lock scope: the flow passes validate_flow and is
\* inserted in flows.
DeployStoreUpTo(limit) ==
    /\ deploying = None
    /\ deploys < limit
    /\ \E f \in ValidDeployFlows :
         /\ flows' = Insert(flows, f.id, f)
         /\ deploying' = Some(f)
    /\ deploys' = deploys + 1
    /\ UNCHANGED <<running, scheduled_flows, now, loops, undeploying, fires, served>>
    /\ UNCHANGED <<execVars, callVars, histVars, lockVars>>

DeployStore == DeployStoreUpTo(MaxDeploys)

\* deploy_flow, second lock scope: scheduler.schedule_flow(flow).
DeploySchedule ==
    /\ deploying # None
    /\ scheduled_flows' = schedule_flow(scheduled_flows, deploying[1], now)
    /\ deploying' = None
    /\ result' = Ok("deploy_flow")
    /\ UNCHANGED <<running, flows, now, loops, undeploying, fires, served, deploys>>
    /\ UNCHANGED <<execVars, execution_trigger, input_data, histVars, lockVars>>

\* undeploy_flow when unschedule_flow finds no entry: NotFoundError is
\* returned by `?` and flows is left alone.
UndeployNotFound ==
    /\ undeploying = None
    /\ \E flow_id \in FlowIds : flow_id \notin DOMAIN scheduled_flows
    /\ result' = Err("undeploy_flow", "NotFoundError")
    /\ UNCHANGED <<execVars, rtVars, execution_trigger, input_data, histVars, lockVars>>

\* undeploy_flow, first lock scope: unschedule_flow removes the entry.
UndeployUnschedule ==
    /\ undeploying = None
    /\ \E flow_id \in FlowIds :
         /\ flow_id \in DOMAIN scheduled_flows
         /\ scheduled_flows' = Remove(scheduled_flows, flow_id)
         /\ undeploying' = Some(flow_id)
    /\ UNCHANGED <<running, flows, now, loops, deploying, fires, served, deploys>>
    /\ UNCHANGED <<execVars, callVars, histVars, lockVars>>

\* An undeploy_flow that aborts the task of an execution of the flow.
UndeployRemoveAborts ==
    /\ undeploying # None
    /\ flows' = Remove(flows, undeploying[1])
    /\ undeploying' = None
    /\ result' = Ok("undeploy_flow")
    /\ pc' = IF pc \in {"idle", "running"} THEN "aborted" ELSE pc
    /\ UNCHANGED <<running, scheduled_flows, now, loops, deploying, fires, served, deploys>>
    /\ UNCHANGED <<flow, execution, execution_order, batch, nstate, node_results,
                   execution_trigger, input_data>>
    /\ UNCHANGED <<histVars, lockVars>>

\* undeploy_flow, second lock scope: the flow is removed from flows.
UndeployRemove ==
    /\ undeploying # None
    /\ flows' = Remove(flows, undeploying[1])
    /\ undeploying' = None
    /\ result' = Ok("undeploy_flow")
    /\ UNCHANGED <<running, scheduled_flows, now, loops, deploying, fires, served, deploys>>
    /\ UNCHANGED <<execVars, execution_trigger, input_data, histVars, lockVars>>

\* A minute passes.
Advance ==
    /\ now < MaxTime
    /\ now' = now + 1
    /\ fires' = {}
    /\ served' = {}
    /\ UNCHANGED <<running, flows, scheduled_flows, loops, deploying, undeploying, deploys>>
    /\ UNCHANGED <<execVars, callVars, histVars, lockVars>>

\* execute_flow_manually when flow_id is no key of flows: NotFoundError.
ManualNotFound ==
    /\ \E flow_id \in FlowIds : flow_id \notin DOMAIN flows
    /\ result' = Err("execute_flow_manually", "NotFoundError")
    /\ UNCHANGED <<execVars, rtVars, execution_trigger, input_data, histVars, lockVars>>

\* An execute_flow_manually that reports the run to the scheduler.
ManualCallScheduled ==
    /\ pc = "nocall"
    /\ \E flow_id \in DOMAIN flows :
         /\ flow' = flows[flow_id]
         /\ nstate' = [n \in flows[flow_id].nodes |-> "idle"]
         /\ scheduled_flows' = update_trigger_next_run(scheduled_flows, flow_id, "t1", now)
    /\ execution_trigger' = "manual"
    /\ \E d \in InputValues : input_data' = d
    /\ pc' = "idle"
    /\ UNCHANGED <<execution, execution_order, batch, node_results, result>>
    /\ UNCHANGED <<histVars, lockVars>>
    /\ UNCHANGED <<running, flows, now, loops, deploying, undeploying, fires, served, deploys>>

\* execute_flow_manually, the flow found: it is cloned out of flows and
\* executor.execute_flow is called with it and a "manual" trigger.
ManualCall ==
    /\ pc = "nocall"
    /\ \E flow_id \in DOMAIN flows :
         /\ flow' = flows[flow_id]
         /\ nstate' = [n \in flows[flow_id].nodes |-> "idle"]
    /\ execution_trigger' = "manual"
    /\ \E d \in InputValues : input_data' = d
    /\ pc' = "idle"
    /\ UNCHANGED <<execution, execution_order, batch, node_results, result>>
    /\ UNCHANGED <<histVars, lockVars>>
    /\ UNCHANGED rtVars

\* No call of execute_flow is in progress when the runtime is constructed.
InitRuntime ==
    /\ RuntimeNew
    /\ NoHistory
    /\ NoCalls
    /\ flow = [nodes |-> {}, edges |-> <<>>, node_type |-> EmptyMap]
    /\ pc = "nocall"
    /\ execution = NoExecution
    /\ execution_order = <<>>
    /\ batch = 0
    /\ nstate = EmptyMap
    /\ node_results = {}
    /\ result = NoResult
    /\ execution_trigger = "none"
    /\ input_data = Null

NextRuntime ==
    \/ StartOk
    \/ StartErr
    \/ Stop
    \/ TickStop
    \/ TickIdle
    \/ TickDispatch
    \/ ExecutionReturns
    \/ DeployInvalid
    \/ DeployStore
    \/ DeploySchedule
    \/ UndeployNotFound
    \/ UndeployUnschedule
    \/ UndeployRemove
    \/ Advance

SpecRuntime == InitRuntime /\ [][NextRuntime]_vars

\* The runtime's API without the scheduler loop: deploy_flow, undeploy_flow
\* and one execute_flow_manually, whose execute_flow call is run by the
\* executor's actions.  validate_flow rejects dangling edges, so the panic of
\* build_execution_order is not among them.
ExecuteSteps ==
    \/ ExecuteFlowCycle
    \/ ExecuteFlowStart
    \/ PollNode
    \/ ValidateOk
    \/ ValidateErr
    \/ ExecuteOk
    \/ ExecuteErr
    \/ JoinBatchOk
    \/ JoinBatchErr
    \/ CompleteFlow

NextManual ==
    \/ DeployInvalid
    \/ DeployStore
    \/ DeploySchedule
    \/ UndeployNotFound
    \/ UndeployUnschedule
    \/ UndeployRemove
    \/ ManualNotFound
    \/ ManualCall
    \/ ExecuteFlowCycle
    \/ ExecuteFlowStart
    \/ PollNode
    \/ ValidateOk
    \/ ValidateErr
    \/ ExecuteOk
    \/ ExecuteErr
    \/ JoinBatchOk
    \/ JoinBatchErr
    \/ CompleteFlow
    \/ Advance

\* The execute_flow task is polled until it returns, and every validate and
\* execute future terminates.
SpecManual == InitRuntime /\ [][NextManual]_vars /\ WF_vars(ExecuteSteps)

(***************************************************************************)
(* Further specifications of the executor.                                 *)
(***************************************************************************)
\* Valid flows only (I1, I2, I3), with the fairness the claim of termination
\* assumes: once called, the execute_flow task is polled until it returns
\* and every validate and execute future terminates.  Whether execute_flow
\* is called at all is up to the caller.
InitValid == \E k \in 0..MaxNodes : \E f \in FlowsOfSize(k) : ValidFlow(f) /\ InitExec(f)

NextValid ==
    \/ ExecuteFlowStart
    \/ PollNode
    \/ ValidateOk
    \/ ValidateErr
    \/ ExecuteOk
    \/ ExecuteErr
    \/ JoinBatchOk
    \/ JoinBatchErr
    \/ CompleteFlow

\* The steps of a call of execute_flow after it was made.
Run ==
    \/ PollNode
    \/ ValidateOk
    \/ ValidateErr
    \/ ExecuteOk
    \/ ExecuteErr
    \/ JoinBatchOk
    \/ JoinBatchErr
    \/ CompleteFlow

SpecValid == InitValid /\ [][NextValid]_vars /\ WF_vars(Run)

\* The fan-out flow wider than the concurrency bound, run with nodes whose
\* validate and execute return Ok (the MockNode of the engine's test).
InitWide == InitExec(WideFlow)

NextWide ==
    \/ ExecuteFlowStart
    \/ PollNode
    \/ ValidateOk
    \/ ExecuteOk
    \/ JoinBatchOk
    \/ CompleteFlow

SpecWide == InitWide /\ [][NextWide]_vars

(***************************************************************************)
(* Definitions used by the properties.                                     *)
(***************************************************************************)
Range(s) == { s[i] : i \in DOMAIN s }

\* Index of the wave of execution_order that holds node n (0 when none does).
WaveIndex(n) ==
    LET ws == { w \in DOMAIN execution_order : n \in Range(execution_order[w]) }
    IN IF ws = {} THEN 0 ELSE CHOOSE w \in ws : \A v \in ws : w <= v

\* execute_flow has been called / has returned its record.
Called == pc # "idle"

Returned == pc = "done"

AnyNodeFailed == \E n \in flow.nodes : nstate[n] \in NodeFailed

RunningNodes == { n \in flow.nodes : nstate[n] \in NodeRunning }

TerminalStatus == {"Completed", "Failed", "Cancelled"}

(***************************************************************************)
(* Properties of the executor.                                             *)
(***************************************************************************)
\* C1: execute_flow returns an execution record for every flow and input
\* (cyclic, unregistered node type, dangling edge included): it never
\* panics, and a failure is reported inside the returned record.
C1_AlwaysReturnsRecord ==
    /\ pc # "panicked"
    /\ Returned => /\ execution # NoExecution
                   /\ execution.status = "Failed" => execution.error # None

\* C2: for a valid flow, when every validate and execute call terminates,
\* execute_flow terminates and the returned status is Completed, Failed or
\* Cancelled (never Pending, Running or Retrying).
C2_ValidFlowTerminates ==
    (ValidFlow(flow) /\ Called) ~> (Returned /\ execution.status \in TerminalStatus)

C2_Witness ==
    /\ ValidFlow(flow)
    /\ Cardinality(flow.nodes) >= 2
    /\ Returned
    /\ execution.status = "Failed"

\* C3: for an acyclic flow whose node types are all registered and whose
\* nodes all pass validate and return a value from execute, execute_flow
\* returns Ok with status Completed, output_data present and error absent.
C3_AllPassCompletes ==
    (~Cyclic(flow) /\ AllRegistered(flow) /\ ~AnyNodeFailed) =>
        /\ pc # "panicked"
        /\ Returned => /\ execution.status = "Completed"
                       /\ execution.output_data # None
                       /\ execution.error = None

\* C4: for an acyclic flow the wave ordering of build_execution_order is a
\* topological order: every node is in a wave and, for every edge (u,v),
\* parallel duplicates included, the wave of u is strictly before that of v.
C4_WavesTopological ==
    (~Cyclic(flow) /\ pc \in {"running", "done"}) =>
        /\ \A n \in flow.nodes : WaveIndex(n) > 0
        /\ \A i \in DOMAIN flow.edges :
             WaveIndex(flow.edges[i][1]) < WaveIndex(flow.edges[i][2])

C4_Witness ==
    /\ pc = "running"
    /\ Len(execution_order) >= 2
    /\ \E i, j \in DOMAIN flow.edges : i # j /\ flow.edges[i] = flow.edges[j]

\* C5: no node's validate or execute begins before every node that is the
\* source of an edge into it has finished.
C5_PredecessorsFinished ==
    \A i \in DOMAIN flow.edges :
        (flow.edges[i][2] \in flow.nodes /\ nstate[flow.edges[i][2]] # "idle") =>
            (flow.edges[i][1] \in flow.nodes /\ nstate[flow.edges[i][1]] \in NodeDone)

C5_Witness ==
    \E i \in DOMAIN flow.edges :
        /\ flow.edges[i][2] \in flow.nodes
        /\ nstate[flow.edges[i][2]] = "validating"
        /\ \E n \in flow.nodes : n # flow.edges[i][2] /\ nstate[n] = "executing"

\* C6: at any instant the number of running nodes of an execution is at most
\* max_concurrent_nodes, also for a wave wider than the bound.
C6_ConcurrencyBound == Cardinality(RunningNodes) <= max_concurrent_nodes

\* C7: when a node of a wave fails, every other node of that wave is run to
\* completion before execute_flow returns, no node of a later wave is ever
\* started, and the flow's status is Failed.
C7_FailurePoisonsFlow ==
    \A n \in flow.nodes :
        nstate[n] \in NodeFailed =>
            /\ \A m \in flow.nodes : WaveIndex(m) > WaveIndex(n) => nstate[m] = "idle"
            /\ Returned =>
                 /\ execution.status = "Failed"
                 /\ \A m \in flow.nodes :
                      WaveIndex(m) = WaveIndex(n) => nstate[m] \in NodeDone

C7_Witness ==
    /\ Returned
    /\ \E n, m, l \in flow.nodes :
         /\ nstate[n] \in NodeFailed
         /\ nstate[m] = "ok"
         /\ WaveIndex(m) = WaveIndex(n)
         /\ execution_order[WaveIndex(n)][1] = n
         /\ WaveIndex(l) > WaveIndex(n)

\* C8: a flow with a directed cycle fails fast with a Validation error: no
\* node's validate or execute is called and the error recorded on the
\* FlowExecution has kind Validation.
C8_CycleIsValidationError ==
    (Cyclic(flow) /\ Returned) =>
        /\ \A n \in flow.nodes : nstate[n] = "idle"
        /\ execution.status = "Failed"
        /\ execution.error # None
        /\ execution.error[1].error_type = "ValidationError"

\* C9: when all waves complete, output_data is selected by sinks: the one
\* sink's output, an object keyed by sink id for several sinks, null for none.
C9_OutputBySinks ==
    LET sinks == Sinks(flow)
        selected == IF sinks = {} THEN Null
                    ELSE IF Cardinality(sinks) = 1 THEN Out(CHOOSE n \in sinks : TRUE)
                    ELSE [json |-> "object", of |-> sinks]
    IN (Returned /\ execution.status = "Completed") =>
           execution.output_data = Some(selected)

(***************************************************************************)
(* Properties of the scheduler loop.                                       *)
(***************************************************************************)
\* The scheduled trigger at position idx of flow id is due.
Due(id, idx) ==
    /\ id \in DOMAIN scheduled_flows
    /\ idx \in DOMAIN scheduled_flows[id].triggers
    /\ scheduled_flows[id].triggers[idx].next_run # None
    /\ scheduled_flows[id].triggers[idx].next_run[1] <= now

\* C10: a due cron trigger produces exactly one run however many scheduler
\* ticks happen at that instant, and after that run its next_fire is
\* strictly later than now; for every cron trigger of every deployed flow.
C10_CronFiresOnce ==
    /\ \A f \in fires : f[2] = 1
    /\ \A k \in served : ~Due(k[1], k[2])

\* The scheduler loop tasks that were spawned and have not left their loop.
AliveLoops == { l \in 1..MaxLoops : loops[l].pc \in {"sleep", "executing"} }

\* C11: after any sequence of start() and stop() calls at most one scheduler
\* loop task is alive and dispatching flows, also when stop() is followed by
\* start() before the old loop's next tick.
C11_OneLoopAlive == Cardinality(AliveLoops) <= 1

\* C12: start() and stop() are idempotent: start() on a started runtime and
\* stop() on a stopped runtime return Ok.
C12_StartStopIdempotent == result.op \in {"start", "stop"} => result.ok

\* C13: stop() joins the scheduler loop task: once stop() has returned (and
\* until a later start()) the task has terminated and starts no execution.
C13_StopJoinsLoop == ~running => AliveLoops = {}

(***************************************************************************)
(* Properties of deploy_flow.                                              *)
(***************************************************************************)
\* C14: deploy_flow of a flow that fails validation returns a Validation
\* error and leaves the flow map and the scheduler's table as they were;
\* only flows that pass validation are inserted and scheduled.
C14_InvalidDeployRejected ==
    /\ [](/\ \A id \in DOMAIN flows : Defects(flows[id]) = {}
          /\ \A id \in DOMAIN scheduled_flows : Defects(scheduled_flows[id].flow) = {})
    /\ [][DeployInvalid =>
            /\ flows' = flows
            /\ scheduled_flows' = scheduled_flows
            /\ ~result'.ok
            /\ result'.error = "ValidationError"]_vars

C14_Witness ==
    /\ result.op = "deploy_flow"
    /\ ~result.ok
    /\ result.arg_defects # {}
    /\ flows # EmptyMap
    /\ scheduled_flows # EmptyMap

\* C15: deploying a flow whose edges form a directed cycle is rejected: the
\* flow is inserted neither in the flow map nor in the scheduler.
C15_CyclicDeployRejected ==
    /\ \A id \in DOMAIN flows : ~Cyclic(flows[id])
    /\ \A id \in DOMAIN scheduled_flows : ~Cyclic(scheduled_flows[id].flow)

\* C16: in every reachable state every flow of the deployed-flow map has at
\* least one node, every edge endpoint is a key of its nodes and every
\* node_type resolves in the registry.
C16_DeployedFlowsValid ==
    \A id \in DOMAIN flows :
        LET f == flows[id]
        IN /\ f.nodes # {}
           /\ \A e \in EdgeSet(f) : e[1] \in f.nodes /\ e[2] \in f.nodes
           /\ \A n \in f.nodes : get_node(f.node_type[n])

C16_Witness ==
    /\ \E id \in DOMAIN flows : flows[id].edges # <<>>
    /\ result.op = "deploy_flow"
    /\ "unknown_edge_node" \in result.arg_defects

\* C17: validation reports every issue: for a flow with several independent
\* defects the error of deploy_flow holds one issue for each defect.
C17_AllIssuesReported ==
    (result.op = "deploy_flow" /\ ~result.ok) => result.issues = result.arg_defects

(***************************************************************************)
(* Properties of undeploy_flow, execute_flow_manually and schedule_flow.   *)
(***************************************************************************)
\* The execute_flow call made by execute_flow_manually has not returned.
InFlight == pc \in {"idle", "running"}

C19_ManualBypassesScheduler ==
    /\ [][(ManualCall \/ ManualNotFound \/ ExecuteSteps) =>
            UNCHANGED <<flows, scheduled_flows>>]_vars
    /\ [][ManualCall => flow'.id \in DOMAIN flows]_vars
    /\ [][ManualNotFound =>
            /\ result' = Err("execute_flow_manually", "NotFoundError")
            /\ UNCHANGED execVars]_vars
    /\ [](Returned => /\ execution # NoExecution
                      /\ execution.trigger_type = "manual")

C19_Witness ==
    /\ Returned
    /\ execution.status = "Completed"
    /\ execution.trigger_type = "manual"
    /\ flow.id \in DOMAIN scheduled_flows
    /\ \E i \in DOMAIN scheduled_flows[flow.id].triggers :
         /\ scheduled_flows[flow.id].triggers[i].next_run # None
         /\ scheduled_flows[flow.id].triggers[i].next_run[1] <= now

\* The enabled triggers of a trigger list, in order.
EnabledTriggers(triggers) == SelectSeq(triggers, LAMBDA t : t.enabled)

\* C20: after schedule_flow the scheduler's entry for flow.id holds exactly
\* the enabled triggers of the flow; every Cron trigger has a next_run
\* strictly after the time of the call, every Webhook and Manual trigger none.
C20_ScheduledEnabledTriggers ==
    /\ [](\A id \in DOMAIN scheduled_flows :
            LET sf == scheduled_flows[id]
            IN /\ [i \in DOMAIN sf.triggers |-> sf.triggers[i].trigger]
                    = EnabledTriggers(sf.flow.triggers)
               /\ \A i \in DOMAIN sf.triggers :
                    (sf.triggers[i].trigger.trigger_type = "cron")
                        <=> (sf.triggers[i].next_run # None))
    /\ [][DeploySchedule =>
            LET sf == scheduled_flows'[deploying[1].id]
            IN /\ sf.flow = deploying[1]
               /\ \A i \in DOMAIN sf.triggers :
                    sf.triggers[i].next_run # None => sf.triggers[i].next_run[1] > now]_vars

C20_Witness ==
    /\ result = Ok("deploy_flow")
    /\ \E id \in DOMAIN scheduled_flows :
         LET sf == scheduled_flows[id]
         IN /\ \E i \in DOMAIN sf.flow.triggers : ~sf.flow.triggers[i].enabled
            /\ \E i \in DOMAIN sf.triggers : sf.triggers[i].trigger.trigger_type = "cron"

\* The scheduled triggers whose next_run is present and <= now.
DueSet ==
    { k \in UNION { { <<id, i>> : i \in DOMAIN scheduled_flows[id].triggers } :
                    id \in DOMAIN scheduled_flows } : Due(k[1], k[2]) }

\* C21: get_ready_flows returns exactly the (flow, trigger) pairs of the
\* scheduled triggers whose next_run is present and <= now, each once: no
\* due trigger is missing, none with a later or absent next_run is
\* returned, and the scheduler's table is the same after the call.
C21_ReadyFlowsExact ==
    /\ [](\A ready_flows \in get_ready_flows(scheduled_flows, now) :
            /\ Len(ready_flows) = Cardinality(DueSet)
            /\ { <<ready_flows[k].flow.id, ready_flows[k].idx>> :
                 k \in DOMAIN ready_flows } = DueSet
            /\ \A k \in DOMAIN ready_flows :
                 LET sf == scheduled_flows[ready_flows[k].flow.id]
                 IN /\ ready_flows[k].flow = sf.flow
                    /\ ready_flows[k].trigger = sf.triggers[ready_flows[k].idx].trigger)
    /\ [][TickDispatch => scheduled_flows' = scheduled_flows]_vars

\* A loop task holds a non-empty snapshot while the table has a due trigger
\* and a trigger without next_run.
C21_Witness ==
    /\ \E l \in 1..MaxLoops : loops[l].pc = "executing" /\ loops[l].ready # <<>>
    /\ DueSet # {}
    /\ \E id \in DOMAIN scheduled_flows :
         \E i \in DOMAIN scheduled_flows[id].triggers :
           scheduled_flows[id].triggers[i].next_run = None

\* execute_node is straight-line code: validate is called once when the
\* node type is registered, and execute once when validate returned Ok.
validate_calls(n) == IF nstate[n] \in {"idle", "unknown_type"} THEN 0 ELSE 1

execute_calls(n) == IF nstate[n] \in {"executing", "ok", "execute_failed"} THEN 1 ELSE 0

\* C22: when a node's validate fails, its execute is never called and its
\* validate is not called again, and in the returned record the flow is
\* Failed and the node's NodeExecution is Failed with the validation error.
C22_ValidateFailureRecorded ==
    \A n \in DOMAIN nstate :
      nstate[n] = "validate_failed" =>
        /\ execute_calls(n) = 0
        /\ validate_calls(n) = 1
        /\ Returned =>
             /\ execution.status = "Failed"
             /\ n \in DOMAIN execution.node_executions
             /\ execution.node_executions[n].status = "Failed"
             /\ execution.node_executions[n].error # None
             /\ execution.node_executions[n].error[1].error_type = "ValidationError"

(***************************************************************************)
(* execute_flow on flows whose nodes carry retry_config, timeout_ms and    *)
(* parameters (FlowNode), run by node implementations that declare         *)
(* supports_retry.                                                         *)
(***************************************************************************)
\* serde_json::Value of a parameter: a literal, the text of the reference
\* `{{ $nodes.N.x }}`, and the value V that node N emits under x.
Literal == [json |-> "literal", of |-> {}]
Reference(N) == [json |-> "reference", of |-> {N}]
Value(N) == [json |-> "value", of |-> {N}]

\* RetryConfig, as far as it is read: max_attempts.
RetryConfigs == { [max_attempts |-> MaxAttempts] }

\* The graphs: one node, a chain of two, two independent nodes.
NodeGraphs ==
    { [nodes |-> {1}, edges |-> <<>>],
      [nodes |-> {1, 2}, edges |-> <<<<1, 2>>>>],
      [nodes |-> {1, 2}, edges |-> <<>>] }

\* FlowNode.parameters (one parameter per node): only a node behind node 1
\* refers to the output of node 1.
ParametersOf(g) ==
    { q \in [g.nodes -> {Literal, Reference(1)}] :
        \A n \in g.nodes : q[n] = Reference(1) => <<1, n>> \in Range(g.edges) }

\* supports_retry is what the implementation registered under the node's
\* type declares (the trait's default is true).
FlowsOn(g) ==
    { [nodes |-> g.nodes, edges |-> g.edges,
       node_type |-> [n \in g.nodes |-> "test_node"],
       retry_config |-> r, timeout_ms |-> t, supports_retry |-> s, parameters |-> q] :
      r \in [g.nodes -> {None} \cup { Some(c) : c \in RetryConfigs }],
      t \in [g.nodes -> {None, Some(TimeoutMs)}],
      s \in [g.nodes -> BOOLEAN],
      q \in ParametersOf(g) }

NodeFlows == UNION { FlowsOn(g) : g \in NodeGraphs }

\* resolve_node_input: the parameters are cloned into a JSON object; the
\* interpolation is a TODO, so node_results and variables are not read.
resolve_node_input(flow_node_parameters, results, variables) == flow_node_parameters

\* context.input of the ExecutionContext built for node n.
context_input(n) == resolve_node_input(flow.parameters[n], node_results, {"input"})

\* timeout_ms of a node passes while node.execute(context).await is pending:
\* execute_node has no timer, it keeps awaiting execute.
TimeoutElapses ==
    /\ InBatch
    /\ \E n \in flow.nodes :
         /\ nstate[n] = "executing"
         /\ flow.timeout_ms[n] # None
         /\ n \notin elapsed
         /\ elapsed' = elapsed \cup {n}
    /\ UNCHANGED <<execVars, rtVars, callVars>>
    /\ UNCHANGED <<first_failed, cancelled, events, registry, previous, lockVars>>

\* A caller asks for the cancellation of the execution (POST
\* /api/executions/:id/cancel).  execute_flow takes no cancellation token
\* and reads no shared flag, so the request changes nothing it sees.
CancelRequest ==
    /\ pc \in {"idle", "running"}
    /\ ~cancelled
    /\ cancelled' = TRUE
    /\ UNCHANGED <<execVars, rtVars, callVars>>
    /\ UNCHANGED <<first_failed, elapsed, events, registry, previous, lockVars>>

InitNode == \E f \in NodeFlows : InitExec(f)

NextNode ==
    \/ ExecuteFlowStart
    \/ PollNode
    \/ ValidateOk
    \/ ValidateErr
    \/ ExecuteOk
    \/ ExecuteErr
    \/ JoinBatchOk
    \/ JoinBatchErr
    \/ CompleteFlow
    \/ TimeoutElapses
    \/ CancelRequest

SpecNode == InitNode /\ [][NextNode]_vars

\* Node n may be retried: its implementation declares supports_retry and
\* the FlowNode has a retry_config.
MayRetry(n) == flow.supports_retry[n] /\ flow.retry_config[n] # None

\* C23: a node that supports retry and has a retry_config (max_attempts
\* = 3) is executed again after an attempt that failed with a retryable
\* Network error: its failure reaches the flow only when execute was called
\* max_attempts times, so two failed attempts followed by a success leave
\* the node and the flow Completed.
C23_RetriedUntilAttemptsUsed ==
    \A n \in DOMAIN nstate :
      (MayRetry(n) /\ nstate[n] = "execute_failed") =>
        execute_calls(n) = flow.retry_config[n][1].max_attempts

\* C24: a node whose timeout_ms passed while its execute was pending is
\* failed with a Timeout error; when it does not support retry, the call of
\* execute is not awaited to its end and the flow ends Failed.
C24_TimeoutFailsNode ==
    \A n \in elapsed :
      (~flow.supports_retry[n] /\ Returned) =>
        /\ nstate[n] # "ok"
        /\ execution.status = "Failed"

\* C25: the error recorded on the returned FlowExecution is the error of
\* the node that failed first in time (also among the nodes of one wave),
\* with that error's kind.
C25_FirstFailureReported ==
    (Returned /\ first_failed # None) =>
      /\ execution.error # None
      /\ execution.error[1].message = NodeError(first_failed[1])
      /\ execution.error[1].error_type = NodeError(first_failed[1]).variant

\* C26: when node N has completed with output {x: V} and a downstream node
\* has the parameter `{{ $nodes.N.x }}`, the input given to the downstream
\* node's validate and execute has that parameter equal to V, not the
\* reference text.
C26_ReferencesResolved ==
    \A n \in DOMAIN nstate : \A N \in node_results :
      (validate_calls(n) > 0 /\ flow.parameters[n] = Reference(N)) =>
        context_input(n) = Value(N)

\* C27: when no node of the flow fails, the returned record's
\* node_executions has one entry per executed node: as many entries as the
\* flow has nodes (the flows have no edge conditions).
C27_NodeExecutionsCount ==
    (Returned /\ execution.status = "Completed" /\ ~AnyNodeFailed) =>
      Cardinality(DOMAIN execution.node_executions) = Cardinality(flow.nodes)

(***************************************************************************)
(* BasicNodeRegistry (traits.rs): a registry being filled, before it is    *)
(* shared with an executor.                                                *)
(***************************************************************************)
RegistryTypes == {"test_node", "http_request", "if"}
Implementations == {"MockNode", "HttpRequestNode", "IfNode", "TemplateNode"}

\* register_node: HashMap::insert under node_type, then Ok(()).
register_node(nodes, node_type, node) == Insert(nodes, node_type, node)

RegisterNode ==
    /\ \E node_type \in RegistryTypes : \E node \in Implementations :
         registry' = register_node(registry, node_type, node)
    /\ result' = Ok("register_node")
    /\ UNCHANGED <<execVars, rtVars, execution_trigger, input_data>>
    /\ UNCHANGED <<first_failed, elapsed, cancelled, events, previous, lockVars>>

\* BasicNodeRegistry::new: no node is registered.
InitRegistry ==
    /\ RuntimeNew
    /\ NoCalls
    /\ registry = EmptyMap
    /\ previous = None
    /\ first_failed = None
    /\ elapsed = {}
    /\ cancelled = FALSE
    /\ events = <<>>
    /\ flow = [nodes |-> {}, edges |-> <<>>, node_type |-> EmptyMap]
    /\ pc = "nocall"
    /\ execution = NoExecution
    /\ execution_order = <<>>
    /\ batch = 0
    /\ nstate = EmptyMap
    /\ node_results = {}
    /\ result = NoResult
    /\ execution_trigger = "none"
    /\ input_data = Null

NextRegistry == RegisterNode

SpecRegistry == InitRegistry /\ [][NextRegistry]_vars

\* C28: register_node is idempotent for the implementation already
\* registered under node_type, and with a different implementation under a
\* registered node_type it fails and leaves the registered implementation
\* in place: no call replaces the implementation of a registered type.
C28_RegisterKeepsFirst ==
    [][\A node_type \in DOMAIN registry :
         /\ node_type \in DOMAIN registry'
         /\ registry'[node_type] = registry[node_type]]_vars

\* The positions in events of the events of one type about node n.
EventsOf(type, n) ==
    { i \in DOMAIN events : events[i].type = type /\ events[i].node = {n} }

\* C29: an execution emits its lifecycle events in program order with
\* strictly increasing sequence numbers: ExecutionStarted first, NodeStarted
\* before the NodeCompleted or NodeFailed of the same node, and exactly one
\* terminal event, last.
C29_LifecycleEvents ==
    /\ \A i, j \in DOMAIN events : i < j => events[i].seq < events[j].seq
    /\ pc \in {"running", "done"} =>
         /\ events # <<>>
         /\ events[1].type = "ExecutionStarted"
    /\ \A n \in DOMAIN nstate :
         nstate[n] \in NodeDone =>
           /\ EventsOf("NodeStarted", n) # {}
           /\ \A i \in EventsOf("NodeStarted", n) :
                \A j \in EventsOf("NodeCompleted", n) \cup EventsOf("NodeFailed", n) : i < j
    /\ Returned =>
         /\ events # <<>>
         /\ LET terminal == {"ExecutionCompleted", "ExecutionFailed", "ExecutionCancelled"}
            IN /\ events[Len(events)].type \in terminal
               /\ Cardinality({ i \in DOMAIN events : events[i].type \in terminal }) = 1

\* No execute_node future of the execution was polled yet.
NoNodeStarted == \A n \in DOMAIN nstate : nstate[n] = "idle"

\* C30: when the execution is cancelled before the first wave is
\* dispatched, no node is started afterwards and the returned FlowExecution
\* has status Cancelled.
C30_CancelBeforeStart ==
    /\ [][(cancelled /\ NoNodeStarted) => NoNodeStarted']_vars
    /\ []((cancelled /\ NoNodeStarted /\ Returned) => execution.status = "Cancelled")

\* The nodes with an edge into n.
Predecessors(n) == { flow.edges[i][1] : i \in { j \in DOMAIN flow.edges : flow.edges[j][2] = n } }

\* The largest wave index among the nodes of S (0 for no node).
MaxWave(S) ==
    IF S = {} THEN 0
    ELSE LET top == CHOOSE p \in S : \A q \in S : WaveIndex(q) <= WaveIndex(p)
         IN WaveIndex(top)

\* C31: in the wave ordering of an acyclic flow, the first wave is exactly
\* the set of nodes without incoming edge, and every other node is in the
\* wave that follows the latest wave of its edge-predecessors.
C31_WavesMaximal ==
    (~Cyclic(flow) /\ pc \in {"running", "done"}) =>
        /\ execution_order # <<>> =>
             Range(execution_order[1]) = { n \in flow.nodes : Predecessors(n) = {} }
        /\ \A n \in flow.nodes : WaveIndex(n) = MaxWave(Predecessors(n)) + 1

\* A flow whose order was built and in which a node has predecessors in two
\* different waves.
C31_Witness ==
    /\ pc = "running"
    /\ ~Cyclic(flow)
    /\ \E n \in flow.nodes : \E p, q \in Predecessors(n) : WaveIndex(p) < WaveIndex(q)

\* The scheduler loop task l calls execute_flow in this step: it enters the
\* for loop over its snapshot or goes on to the snapshot's next entry.
StartsExecution(l) ==
    /\ loops'[l].pc = "executing"
    /\ loops[l].pc # "executing" \/ loops'[l].ready # loops[l].ready

\* undeploy_flow has returned Ok for flow id and it was not deployed again.
Undeployed(id) == id \notin DOMAIN flows /\ id \notin DOMAIN scheduled_flows

\* C32: after undeploy_flow(flow_id) has returned successfully, the
\* scheduler loop starts no new execution of that flow, also when a tick
\* took its snapshot of the ready flows before the undeploy.
C32_NoRunAfterUndeploy ==
    [][\A l \in 1..MaxLoops :
         StartsExecution(l) => ~Undeployed(Head(loops'[l].ready).flow.id)]_vars

(***************************************************************************)
(* deploy_flow and undeploy_flow called concurrently on a runtime, a flow  *)
(* being deployed more than once.                                          *)
(***************************************************************************)
DeployStoreAgain == DeployStoreUpTo(MaxRedeploys)

NextDeploy ==
    \/ DeployInvalid
    \/ DeployStoreAgain
    \/ DeploySchedule
    \/ UndeployNotFound
    \/ UndeployUnschedule
    \/ UndeployRemove

SpecDeploy == InitRuntime /\ [][NextDeploy]_vars

\* C33: whenever no deploy_flow or undeploy_flow call is in progress, the
\* runtime's flow map and the scheduler's table hold the same flow ids,
\* however the calls interleave.
C33_MapsAgree ==
    (deploying = None /\ undeploying = None) => DOMAIN flows = DOMAIN scheduled_flows

\* How many times node n is placed in the waves of execution_order.
RECURSIVE Placements(_, _)
Placements(waves, n) ==
    IF waves = <<>> THEN 0
    ELSE Cardinality({ i \in DOMAIN Head(waves) : Head(waves)[i] = n })
         + Placements(Tail(waves), n)

\* C34: in an execution of an acyclic flow that ends Completed every node
\* is placed in exactly one wave and its execute is called exactly once; in
\* no execution is a node placed twice or its execute called when it was
\* called before.
C34_ExecutedOnce ==
    /\ []((Returned /\ ~Cyclic(flow) /\ execution.status = "Completed") =>
            \A n \in flow.nodes :
              Placements(execution_order, n) = 1 /\ execute_calls(n) = 1)
    /\ [](\A n \in flow.nodes :
            Placements(execution_order, n) <= 1 /\ execute_calls(n) <= 1)
    /\ [][\A n \in flow.nodes :
            (nstate'[n] = "executing" /\ nstate[n] # "executing") =>
              execute_calls(n) = 0]_vars

\* A Completed execution of an acyclic flow of three nodes in two or more waves.
C34_Witness ==
    /\ Returned
    /\ ~Cyclic(flow)
    /\ execution.status = "Completed"
    /\ Cardinality(flow.nodes) = 3
    /\ Len(execution_order) >= 2

\* The scheduler loop under the scheduling the code relies on: time passes,
\* a loop task that awaits ticker.tick() is resumed by the interval timer,
\* and every call of execute_flow made by a loop task returns.
SpecRuntimeFair ==
    /\ InitRuntime
    /\ [][NextRuntime]_vars
    /\ WF_vars(Advance)
    /\ WF_vars(TickDispatch)
    /\ WF_vars(ExecutionReturns)

\* A scheduler loop task is running the flow for scheduled trigger idx of flow id.
Dispatched(id, idx) ==
    \E l \in 1..MaxLoops :
      /\ loops[l].pc = "executing"
      /\ Head(loops[l].ready).flow.id = id
      /\ Head(loops[l].ready).idx = idx

\* C35: while the runtime stays started and the flow stays deployed, a cron
\* trigger whose next_run has passed is eventually dispatched, each time
\* its next_run passes.
C35_DueTriggerDispatched ==
    \A id \in FlowIds : \A idx \in 1..MaxTriggers :
      (running /\ Due(id, idx)) ~>
        (Dispatched(id, idx) \/ ~running \/ id \notin DOMAIN scheduled_flows)

(***************************************************************************)
(* The lock discipline of FlowRuntime and FlowScheduler.  Each operation   *)
(* is the sequence of its lock steps in program order: acquire is a        *)
(* .read().await or .write().await, release the end of the guard's scope   *)
(* (or drop), and execute the awaited executor.execute_flow.  tokio's      *)
(* RwLock serves the tasks awaiting it first come, first served.           *)
(***************************************************************************)
acquire(l, m) == [kind |-> "acquire", lock |-> l, mode |-> m]
release(l) == [kind |-> "release", lock |-> l, mode |-> "none"]
execute == [kind |-> "execute", lock |-> "none", mode |-> "none"]

Operations ==
    {"start", "stop", "deploy_flow", "undeploy_flow", "execute_flow_manually",
     "list_flows", "get_flow", "tick"}

\* A deploy_flow that kept the guard of the flow map while it calls
\* schedule_flow, and an undeploy_flow that kept the scheduler's guard while
\* it takes the flow map.
LockProgramNested(op, ok) ==
    CASE op = "start" -> <<acquire("running", "write"), release("running")>>
      [] op = "stop" -> <<acquire("running", "write"), release("running")>>
      [] op = "deploy_flow" ->
            IF ok
            THEN <<acquire("flows", "write"),
                   acquire("scheduled_flows", "write"),
                   release("scheduled_flows"), release("flows")>>
            ELSE <<>>
      [] op = "undeploy_flow" ->
            IF ok
            THEN <<acquire("scheduled_flows", "write"),
                   acquire("flows", "write"),
                   release("flows"), release("scheduled_flows")>>
            ELSE <<acquire("scheduled_flows", "write"),
                   release("scheduled_flows")>>
      [] op = "execute_flow_manually" ->
            IF ok
            THEN <<acquire("flows", "read"), release("flows"), execute>>
            ELSE <<acquire("flows", "read"), release("flows")>>
      [] op = "list_flows" -> <<acquire("flows", "read"), release("flows")>>
      [] op = "get_flow" -> <<acquire("flows", "read"), release("flows")>>
      [] op = "tick" ->
            <<acquire("running", "read"), release("running"),
              acquire("scheduled_flows", "read"), release("scheduled_flows"),
              execute,
              acquire("scheduled_flows", "write"), release("scheduled_flows")>>

\* The lock steps of each operation.  ok = FALSE is the call that returns
\* its error: deploy_flow of an invalid flow returns before any lock,
\* undeploy_flow of an unscheduled flow after unschedule_flow, and
\* execute_flow_manually of an unknown flow after the lookup.
LockProgram(op, ok) ==
    CASE op = "start" -> <<acquire("running", "write"), release("running")>>
      [] op = "stop" -> <<acquire("running", "write"), release("running")>>
      [] op = "deploy_flow" ->
            IF ok
            THEN <<acquire("flows", "write"), release("flows"),
                   acquire("scheduled_flows", "write"),
                   release("scheduled_flows")>>
            ELSE <<>>
      [] op = "undeploy_flow" ->
            IF ok
            THEN <<acquire("scheduled_flows", "write"),
                   release("scheduled_flows"),
                   acquire("flows", "write"), release("flows")>>
            ELSE <<acquire("scheduled_flows", "write"),
                   release("scheduled_flows")>>
      [] op = "execute_flow_manually" ->
            IF ok
            THEN <<acquire("flows", "read"), release("flows"), execute>>
            ELSE <<acquire("flows", "read"), release("flows")>>
      [] op = "list_flows" -> <<acquire("flows", "read"), release("flows")>>
      [] op = "get_flow" -> <<acquire("flows", "read"), release("flows")>>
      [] op = "tick" ->
            <<acquire("running", "read"), release("running"),
              acquire("scheduled_flows", "read"), release("scheduled_flows"),
              execute,
              acquire("scheduled_flows", "write"), release("scheduled_flows")>>

\* The loop's tick runs its steps 5..7 (execute_flow, then
\* update_trigger_next_run) once per entry of ready_flows.
TickBody == 5
TickEnd == 7

\* The call has run to its end.
Returns(c) ==
    \/ c.at > Len(LockProgram(c.op, c.ok))
    \/ c.op = "tick" /\ c.at = TickBody /\ c.ready = 0

\* The step the call is at.
StepOf(c) ==
    IF c.op = "none" \/ Returns(c)
    THEN [kind |-> "return", lock |-> "none", mode |-> "none"]
    ELSE LockProgram(c.op, c.ok)[c.at]

\* The call after its current step: the for loop of the tick goes back to
\* its body while entries of ready_flows are left.
Advanced(c) ==
    IF c.op = "tick" /\ c.at = TickEnd
    THEN IF c.ready > 1
         THEN [c EXCEPT !.at = TickBody, !.ready = c.ready - 1]
         ELSE [c EXCEPT !.at = c.at + 1, !.ready = 0]
    ELSE [c EXCEPT !.at = c.at + 1]

\* The locks a task holds a guard of.
HeldBy(t) == {l \in Locks : \E m \in {"read", "write"} : <<t, m>> \in held[l]}

Queued(t, l) == \E i \in 1..Len(waiting[l]) : waiting[l][i] = t

\* RwLock: any number of readers, or one writer.
Compatible(l, m) ==
    IF m = "write"
    THEN held[l] = {}
    ELSE \A g \in held[l] : g[2] = "read"

OtherUnchanged == UNCHANGED <<execVars, rtVars, callVars, histVars>>

\* A task calls an operation; a tick finds 0..MaxTriggers ready entries.
Call(t) ==
    /\ calls[t] = Idle
    /\ \E op \in Operations : \E ok \in BOOLEAN :
       \E r \in 0..MaxTriggers :
         /\ op = "tick" \/ r = 0
         /\ op \in {"deploy_flow", "undeploy_flow", "execute_flow_manually"}
              \/ ok
         /\ calls' = [calls EXCEPT ![t] =
                        [op |-> op, ok |-> ok, at |-> 1, ready |-> r]]
    /\ UNCHANGED <<held, waiting>>
    /\ OtherUnchanged

\* .read().await / .write().await: the task joins the lock's queue.
Request(t) ==
    /\ StepOf(calls[t]).kind = "acquire"
    /\ ~Queued(t, StepOf(calls[t]).lock)
    /\ waiting' = [waiting EXCEPT ![StepOf(calls[t]).lock] = Append(@, t)]
    /\ UNCHANGED <<held, calls>>
    /\ OtherUnchanged

\* The first task of the queue gets its guard once the lock allows it.
Grant(t) ==
    LET s == StepOf(calls[t]) IN
    /\ s.kind = "acquire"
    /\ waiting[s.lock] # <<>>
    /\ Head(waiting[s.lock]) = t
    /\ Compatible(s.lock, s.mode)
    /\ waiting' = [waiting EXCEPT ![s.lock] = Tail(@)]
    /\ held' = [held EXCEPT ![s.lock] = @ \cup {<<t, s.mode>>}]
    /\ calls' = [calls EXCEPT ![t] = Advanced(@)]
    /\ OtherUnchanged

\* The guard goes out of scope or is dropped.
Release(t) ==
    LET s == StepOf(calls[t]) IN
    /\ s.kind = "release"
    /\ held' = [held EXCEPT ![s.lock] = {g \in @ : g[1] # t}]
    /\ calls' = [calls EXCEPT ![t] = Advanced(@)]
    /\ UNCHANGED waiting
    /\ OtherUnchanged

\* The awaited executor.execute_flow returns.
Executed(t) ==
    /\ StepOf(calls[t]).kind = "execute"
    /\ calls' = [calls EXCEPT ![t] = Advanced(@)]
    /\ UNCHANGED <<held, waiting>>
    /\ OtherUnchanged

\* The operation returns to its caller.
Return(t) ==
    /\ calls[t].op # "none"
    /\ Returns(calls[t])
    /\ calls' = [calls EXCEPT ![t] = Idle]
    /\ UNCHANGED <<held, waiting>>
    /\ OtherUnchanged

\* A step of a call in progress.
Proceed(t) ==
    Request(t) \/ Grant(t) \/ Release(t) \/ Executed(t) \/ Return(t)

InitLocks == InitRuntime

NextLocks ==
    \E t \in Tasks :
      \/ Call(t)
      \/ Request(t)
      \/ Grant(t)
      \/ Release(t)
      \/ Executed(t)
      \/ Return(t)

\* Every task that can take a step is scheduled, and node executions
\* terminate.
SpecLocks ==
    /\ InitLocks
    /\ [][NextLocks]_vars
    /\ \A t \in Tasks : WF_vars(Proceed(t))

\* A task that is about to wait for a lock, or waits for it, holds no guard.
NoNestedWait ==
    \A t \in Tasks : StepOf(calls[t]).kind = "acquire" => HeldBy(t) = {}

\* C36: no operation waits for one of the three locks while it holds
\* another, and every call of start, stop, deploy_flow, undeploy_flow,
\* execute_flow_manually, list_flows, get_flow and of the loop's tick
\* completes, given that executions terminate.
C36_DeadlockFree ==
    /\ []NoNestedWait
    /\ \A t \in Tasks : (calls[t].op # "none") ~> (calls[t] = Idle)

\* A task waits in the queue of a lock that another task holds for writing.
C36_Witness ==
    \E t, u \in Tasks : \E l \in Locks :
      /\ t # u
      /\ Queued(t, l)
      /\ <<u, "write">> \in held[l]
      /\ calls[u].op \in {"deploy_flow", "undeploy_flow"}

(***************************************************************************)
(* The record execute_flow returns, with the clock running during the      *)
(* call: flows that carry an id and a version, and any input.              *)
(***************************************************************************)
Versions == {"1.0.0", "2.0.0"}

RecordFlows ==
    { [nodes |-> f.nodes, edges |-> f.edges, node_type |-> f.node_type,
       id |-> i, version |-> v] :
      f \in UNION { FlowsOfSize(k) : k \in 0..MaxRecordNodes },
      i \in FlowIds, v \in Versions }

InitRecord == \E f \in RecordFlows : \E d \in InputValues : InitCall(f, d)

NextRecord == Next \/ Advance

SpecRecord == InitRecord /\ [][NextRecord]_vars

\* C37: the record execute_flow returns has completed_at and
\* execution_time_ms set and started_at <= completed_at; Completed comes
\* with output_data and without error, Failed with error and without
\* output_data; flow_id, flow_version and input_data are those of the call.
C37_RecordConsistent ==
    pc = "done" =>
      /\ execution.completed_at # None
      /\ execution.execution_time_ms # None
      /\ \A t \in 0..MaxTime :
           execution.completed_at = Some(t) => execution.started_at <= t
      /\ execution.status \in {"Completed", "Failed"}
      /\ execution.status = "Completed" =>
           execution.output_data # None /\ execution.error = None
      /\ execution.status = "Failed" =>
           execution.error # None /\ execution.output_data = None
      /\ execution.flow_id = flow.id
      /\ execution.flow_version = flow.version
      /\ execution.input_data = input_data

\* A Completed record of a run that took time, for an input other than null
\* and a version other than the first.
C37_Witness ==
    /\ pc = "done"
    /\ execution.status = "Completed"
    /\ execution.completed_at = Some(now)
    /\ execution.started_at < now
    /\ execution.input_data # Null
    /\ execution.flow_version = "2.0.0"

(***************************************************************************)
(* Two executions of one flow.  The second call is given an equal Flow and *)
(* the same input; the Flow's nodes are a HashMap, and the iteration order *)
(* of keys() is that of each HashMap value (its RandomState), so every     *)
(* order is possible in each call.                                         *)
(***************************************************************************)
\* execute_flow has returned its record; it is called again with an equal
\* flow and the same input, and the first record is remembered.
ExecuteAgain ==
    /\ pc = "done"
    /\ previous = None
    /\ previous' = Some(execution)
    /\ pc' = "idle"
    /\ execution' = NoExecution
    /\ execution_order' = <<>>
    /\ batch' = 0
    /\ nstate' = [n \in flow.nodes |-> "idle"]
    /\ node_results' = {}
    /\ first_failed' = None
    /\ UNCHANGED flow
    /\ UNCHANGED rtVars
    /\ UNCHANGED <<callVars, elapsed, cancelled, events, registry, lockVars>>

NextTwice == Next \/ ExecuteAgain

SpecTwice == Init /\ [][NextTwice]_vars

\* Both executions ran every node to its output: each node returned the
\* same output in both.
BothCompleted ==
    /\ pc = "done"
    /\ previous # None
    /\ previous[1].status = "Completed"
    /\ execution.status = "Completed"

\* C38: two executions of the same flow of two or more nodes with the same
\* input, in which every node returns the same output in both, end with
\* equal status and equal output_data.
C38_SameOutput ==
    (BothCompleted /\ Cardinality(flow.nodes) >= 2) =>
      /\ execution.status = previous[1].status
      /\ execution.output_data = previous[1].output_data

====
